---------------------------- MODULE Spec2Model ----------------------------
(***************************************************************************)
(* Model of the SAC API test tool relay (src/main.py): the SACClient       *)
(* session client (token cache, CSRF handshake, one-shot CSRF retry) and   *)
(* the POST /api/request handler that runs it on the worker pool.          *)
(*                                                                         *)
(* Texts (URLs, endpoints, methods, response bodies) are sequences of      *)
(* one-character strings, so that str.upper(), str.rstrip(), startswith    *)
(* and the `in` substring test are computed as Python computes them.       *)
(***************************************************************************)
EXTENDS Integers, Sequences, FiniteSets, TLC

(***************************************************************************)
(* Bounds of the model.                                                    *)
(***************************************************************************)
\* the clock runs from 0 to MaxTime (seconds after the process started)
MaxTime == 2
\* number of relay call slots of the worker pool runs (browser requests that
\* can be outstanding at once); one more than the pool has workers
NCalls == 5

(***************************************************************************)
(* Program constants.                                                      *)
(***************************************************************************)
\* ThreadPoolExecutor(max_workers=4)
MaxWorkers == 4
\* the safety margin subtracted from expires_in
ExpiryMargin == 300
\* data.get('expires_in', 3600)
DefaultExpiresIn == 3600

(***************************************************************************)
(* Python values.                                                          *)
(***************************************************************************)
\* None, for values that are otherwise strings (tokens, header values)
None == "None"
\* a header key that was never set in the headers dict
Absent == "<absent>"
\* Python truthiness of an Optional[str]
Truthy(x) == x # None /\ x # ""

\* the letters that occur in the model's texts, lower and upper case aligned
LowerChars == <<"c", "s", "r", "f", "g", "e", "t", "p", "o", "u", "d", "l", "a", "h", "v",
                "i", "n", "j", "x">>
UpperChars == <<"C", "S", "R", "F", "G", "E", "T", "P", "O", "U", "D", "L", "A", "H", "V",
                "I", "N", "J", "X">>

\* str.upper() on one character
UpperChar(ch) ==
    IF \E i \in DOMAIN LowerChars : LowerChars[i] = ch
    THEN UpperChars[CHOOSE i \in DOMAIN LowerChars : LowerChars[i] = ch]
    ELSE ch

\* str.upper()
Upper(s) == [i \in 1..Len(s) |-> UpperChar(s[i])]

\* s.startswith(p)
StartsWith(s, p) == Len(s) >= Len(p) /\ SubSeq(s, 1, Len(p)) = p

\* sub in s
Contains(s, sub) ==
    \E i \in 1..(Len(s) - Len(sub) + 1) : SubSeq(s, i, i + Len(sub) - 1) = sub

\* s.rstrip(ch)
RECURSIVE RStrip(_, _)
RStrip(s, ch) ==
    IF Len(s) > 0 /\ s[Len(s)] = ch THEN RStrip(SubSeq(s, 1, Len(s) - 1), ch) ELSE s

\* s.lstrip(ch), used only to state the normalisation property
RECURSIVE LStrip(_, _)
LStrip(s, ch) ==
    IF Len(s) > 0 /\ s[1] = ch THEN LStrip(Tail(s), ch) ELSE s


(***************************************************************************)
(* Exceptions.  An exception is named by its class; IsInstance gives the   *)
(* class hierarchy that the except clauses of the handler test.            *)
(***************************************************************************)
\* what a requests call can raise instead of returning a response
TransportExc == {"ReadTimeout", "ConnectTimeout", "ConnectionError", "TooManyRedirects"}

\* isinstance(e, cls) for the classes the handler catches
IsInstance(e, cls) ==
    CASE cls = "Timeout" -> e \in {"ReadTimeout", "ConnectTimeout"}
      [] cls = "ConnectionError" -> e \in {"ConnectionError", "ConnectTimeout"}
      [] cls = "Exception" -> TRUE
      [] OTHER -> e = cls

\* Response.raise_for_status(): HTTPError for 4xx and 5xx
RaiseForStatus(status) == 400 <= status /\ status < 600

(***************************************************************************)
(* What the environment can hold and what the upstream can answer.         *)
(***************************************************************************)
\* an environment variable: unset, or set to a text
Unset == [set |-> FALSE, val |-> <<>>]
SetTo(v) == [set |-> TRUE, val |-> v]

EnvNames == {"SAC_BASE_URL", "SAC_TOKEN_URL", "SAC_CLIENT_ID", "SAC_CLIENT_SECRET"}
BaseUrlValues == {<<>>, <<"h">>, <<"h", "/", "/">>, <<"/">>}
Environments ==
    [SAC_BASE_URL : {Unset} \cup {SetTo(v) : v \in BaseUrlValues},
     SAC_TOKEN_URL : {Unset, SetTo(<<>>), SetTo(<<"t">>)},
     SAC_CLIENT_ID : {Unset, SetTo(<<>>), SetTo(<<"i">>)},
     SAC_CLIENT_SECRET : {Unset, SetTo(<<>>), SetTo(<<"s">>)}]

\* the SACRequest fields the handler uses
Methods == {<<"G", "E", "T">>, <<"p", "o", "s", "t">>, <<"P", "u", "t">>,
            <<"P", "A", "T", "C", "H">>, <<"D", "E", "L", "E", "T", "E">>, <<"H", "E", "A", "D">>}
Endpoints == {<<"v">>, <<"/", "v">>, <<"/", "/", "v">>}

\* answers of the token endpoint
Tokens == {"", "t1", "t2"}
ExpiresIn == {[kind |-> "absent", val |-> 0], [kind |-> "str", val |-> 0],
              [kind |-> "int", val |-> 300], [kind |-> "int", val |-> 301]}
TokenBodies ==
    {[json |-> FALSE, has_token |-> FALSE, access_token |-> None,
      expires_in |-> [kind |-> "absent", val |-> 0]],
     [json |-> TRUE, has_token |-> FALSE, access_token |-> None,
      expires_in |-> [kind |-> "absent", val |-> 0]]}
    \cup [json : {TRUE}, has_token : {TRUE}, access_token : Tokens, expires_in : ExpiresIn]
TokenStatuses == {200, 300, 401}

\* answers of the CSRF endpoint: a status and the x-csrf-token response header
CsrfStatuses == {200, 300, 403}
CsrfHeaders == {None, "c1", "c2"}

\* answers of the target URL: a status and a body text
TargetStatuses == {200, 403, 500}
Texts == {<<"C", "S", " ", "R", "F">>, <<"a", "c", "S", "r", "f">>}
\* the Content-Type response header: not sent, or its value
ContentTypes == {Absent, "application/json", "application/json; charset=utf-8", "text/plain",
                 "Application/JSON", "application/jsonl"}
\* body texts: the JSON documents 1 and "h", a text that is no JSON document, and no body
BodyTexts == {<<"1">>, <<"\"", "h", "\"">>, <<"a", "c", "S", "r", "f">>, <<>>}
NoResponse == [status |-> 0, text |-> <<>>, ctype |-> Absent]

\* an outcome of one HTTP exchange: an exception raised, or a response
Raised(e) == [exc |-> e]
IsRaised(out) == "exc" \in DOMAIN out

TokenOutcomes ==
    {Raised(e) : e \in TransportExc} \cup [status : TokenStatuses, body : TokenBodies]
CsrfOutcomes ==
    {Raised(e) : e \in TransportExc} \cup [status : CsrfStatuses, header : CsrfHeaders]
TargetOutcomes ==
    {Raised(e) : e \in TransportExc}
    \cup [status : TargetStatuses, text : Texts, ctype : {"text/plain"}]

(***************************************************************************)
(* State.                                                                  *)
(***************************************************************************)
VARIABLES
    environ,    \* os.environ: the four SAC_* variables
    world,      \* the name of the world of this run: what the browser sends, the upstream answers
    now,        \* datetime.now().timestamp(), in whole seconds
    queue,      \* the executor's work queue: the calls submitted and not yet taken by a worker
    pc,         \* pc[c]: where relay call c is
    req,        \* req[c]: the SACRequest of call c (method, endpoint)
    client,     \* client[c]: the SACClient the handler constructed for call c
    frame,      \* frame[c]: the locals of _sync_request (url, headers, response)
    grant,      \* grant[c]: when _authenticate last decoded a token body, and its expires_in
    res,        \* res[c]: the response last received from the token or CSRF endpoint
    exc,        \* exc[c]: the exception raised in the handler's try block, or None
    log,        \* log[c]: the upstream requests call c has issued, in order
    result      \* result[c]: the relay's response to call c

vars == <<environ, world, now, queue, pc, req, client, frame, grant, res, exc, log, result>>

\* the relay call slots of the run (browser requests that can be outstanding)
Calls == DOMAIN pc

NoRequest == [method |-> <<>>, endpoint |-> <<>>]
NoClient == [base_url |-> <<>>, token_url |-> <<>>, access_token |-> None,
             token_expiry |-> 0, csrf_token |-> None]
NoFrame == [url |-> <<>>, auth |-> <<>>, csrf |-> Absent, phase |-> "none",
            first |-> NoResponse, second |-> NoResponse, response |-> NoResponse]
NoGrant == [at |-> 0, expires_in |-> [kind |-> "none", val |-> 0]]
NoRes == [kind |-> "none", status |-> 0, has_token |-> FALSE, header |-> None]
NoBody == [type |-> "none"]
NoResult == [kind |-> "none", http |-> 0, status_code |-> 0, body |-> NoBody, detail |-> None]

\* the pcs at which a call occupies a worker of the pool
RunningPcs == {"auth", "csrf", "send1", "send2", "hung"}
Running == {c \in Calls : pc[c] \in RunningPcs}

\* a complete configuration
GoodEnvironment ==
    [SAC_BASE_URL |-> SetTo(<<"h">>), SAC_TOKEN_URL |-> SetTo(<<"t">>),
     SAC_CLIENT_ID |-> SetTo(<<"i">>), SAC_CLIENT_SECRET |-> SetTo(<<"s">>)]

\* every answer of the upstream, for one endpoint
SessionWorld ==
    [methods |-> {<<"G", "E", "T">>, <<"p", "o", "s", "t">>}, endpoints |-> {<<"/", "v">>},
     token |-> TokenOutcomes, csrf |-> CsrfOutcomes, target |-> TargetOutcomes]

\* every endpoint, for an upstream that answers without transport failures
ConfigWorld ==
    [methods |-> Methods, endpoints |-> Endpoints,
     token |-> {[status |-> 200,
                 body |-> [json |-> TRUE, has_token |-> TRUE, access_token |-> "t1",
                           expires_in |-> [kind |-> "absent", val |-> 0]]]},
     csrf |-> {[status |-> 200, header |-> "c1"]},
     target |-> [status : {200, 403}, text : {<<"a", "c", "S", "r", "f">>},
                 ctype : {"text/plain"}]]

\* the token and CSRF endpoints of an upstream that works
GoodToken ==
    [status |-> 200,
     body |-> [json |-> TRUE, has_token |-> TRUE, access_token |-> "t1",
               expires_in |-> [kind |-> "absent", val |-> 0]]]
GoodCsrf == [status |-> 200, header |-> "c1"]

\* every content type and body, for one endpoint of an upstream that works
ContentWorld ==
    [methods |-> {<<"G", "E", "T">>, <<"p", "o", "s", "t">>}, endpoints |-> {<<"/", "v">>},
     token |-> {GoodToken}, csrf |-> {GoodCsrf},
     target |-> [status : {200, 403}, text : BodyTexts, ctype : ContentTypes]]

\* two tokens, and a target URL that accepts or rejects the CSRF token
PairWorld ==
    [methods |-> {<<"G", "E", "T">>, <<"p", "o", "s", "t">>}, endpoints |-> {<<"/", "v">>},
     token |-> {GoodToken, [GoodToken EXCEPT !.body.access_token = "t2"]},
     csrf |-> {GoodCsrf},
     target |-> [status : {200, 403}, text : {<<"a", "c", "S", "r", "f">>},
                 ctype : {"text/plain"}]]

\* GET requests to an upstream that answers 200, or never answers
PoolWorld ==
    [methods |-> {<<"G", "E", "T">>}, endpoints |-> {<<"/", "v">>},
     token |-> {GoodToken}, csrf |-> {GoodCsrf},
     target |-> {[status |-> 200, text |-> <<"1">>, ctype |-> "text/plain"]}]

\* the world of a name
World(w) ==
    CASE w = "session" -> SessionWorld
      [] w = "config" -> ConfigWorld
      [] w = "content" -> ContentWorld
      [] w = "pair" -> PairWorld
      [] w = "pool" -> PoolWorld

\* no call has arrived yet; n is the number of call slots
Idle(n) ==
    /\ now = 0
    /\ queue = <<>>
    /\ pc = [c \in 1..n |-> "idle"]
    /\ req = [c \in 1..n |-> NoRequest]
    /\ client = [c \in 1..n |-> NoClient]
    /\ frame = [c \in 1..n |-> NoFrame]
    /\ grant = [c \in 1..n |-> NoGrant]
    /\ res = [c \in 1..n |-> NoRes]
    /\ exc = [c \in 1..n |-> None]
    /\ log = [c \in 1..n |-> <<>>]
    /\ result = [c \in 1..n |-> NoResult]

\* the process is configured completely and the upstream answers anything
Init ==
    /\ environ = GoodEnvironment
    /\ world = "session"
    /\ Idle(1)

\* the process is configured in any way
InitConfig ==
    /\ environ \in Environments
    /\ world = "config"
    /\ Idle(1)

\* the process is configured completely and the upstream answers in any content type
InitContent ==
    /\ environ = GoodEnvironment
    /\ world = "content"
    /\ Idle(1)

\* two relay calls can be outstanding at once
InitPair ==
    /\ environ = GoodEnvironment
    /\ world = "pair"
    /\ Idle(2)

\* more relay calls can be outstanding than the pool has workers
InitPool ==
    /\ environ = GoodEnvironment
    /\ world = "pool"
    /\ Idle(NCalls)

(***************************************************************************)
(* SACClient.__init__                                                      *)
(***************************************************************************)
\* os.getenv(name, '')
Getenv(env, name) == IF env[name].set THEN env[name].val ELSE <<>>

\* the base_url attribute: the variable with its trailing slashes removed
BaseUrlOf(env) == RStrip(Getenv(env, "SAC_BASE_URL"), "/")

\* a bug: the client secret left out of the list of line 28
ConfigCompleteNoSecret(env) ==
    /\ BaseUrlOf(env) # <<>>
    /\ Getenv(env, "SAC_TOKEN_URL") # <<>>
    /\ Getenv(env, "SAC_CLIENT_ID") # <<>>

\* all([...]) over the four attributes: each is a non-empty text
ConfigComplete(env) ==
    /\ BaseUrlOf(env) # <<>>
    /\ Getenv(env, "SAC_TOKEN_URL") # <<>>
    /\ Getenv(env, "SAC_CLIENT_ID") # <<>>
    /\ Getenv(env, "SAC_CLIENT_SECRET") # <<>>

\* a bug: one client kept for the process, so that a call finds the tokens of another
NewClientShared(env) ==
    IF \E d \in DOMAIN client : Truthy(client[d].access_token)
    THEN client[CHOOSE d \in DOMAIN client : Truthy(client[d].access_token)]
    ELSE [base_url |-> BaseUrlOf(env), token_url |-> Getenv(env, "SAC_TOKEN_URL"),
          access_token |-> None, token_expiry |-> 0, csrf_token |-> None]

\* the client as constructed
NewClient(env) ==
    [base_url |-> BaseUrlOf(env), token_url |-> Getenv(env, "SAC_TOKEN_URL"),
     access_token |-> None, token_expiry |-> 0, csrf_token |-> None]

(***************************************************************************)
(* execute_sac_request: the except clauses and the envelope                *)
(***************************************************************************)
\* a bug: the except clauses of lines 251 and 253 in the other order
RelayStatusConnectionFirst(e) ==
    IF IsInstance(e, "ConnectionError") THEN 502
    ELSE IF IsInstance(e, "Timeout") THEN 504
    ELSE 500

\* the status of the HTTPException the handler raises for exception e
RelayStatus(e) ==
    IF IsInstance(e, "Timeout") THEN 504
    ELSE IF IsInstance(e, "ConnectionError") THEN 502
    ELSE 500

ErrorResponse(e) ==
    [kind |-> "error", http |-> RelayStatus(e), status_code |-> 0, body |-> NoBody,
     detail |-> e]

\* a Python str and a Python int
PyStr(text) == [type |-> "str", chars |-> text]
PyInt(n) == [type |-> "int", int |-> n]

Digits == <<"0", "1", "2", "3", "4", "5", "6", "7", "8", "9">>
IsDigit(ch) == \E i \in DOMAIN Digits : Digits[i] = ch
DigitValue(ch) == (CHOOSE i \in DOMAIN Digits : Digits[i] = ch) - 1

\* int(s) for a text of digits
RECURSIVE DigitsValue(_)
DigitsValue(s) ==
    IF s = <<>> THEN 0
    ELSE 10 * DigitsValue(SubSeq(s, 1, Len(s) - 1)) + DigitValue(s[Len(s)])

\* the text is a JSON number without sign, fraction or exponent
IsJsonNumber(s) ==
    /\ s # <<>>
    /\ \A i \in DOMAIN s : IsDigit(s[i])
    /\ Len(s) > 1 => s[1] # "0"

\* the text is a JSON string without escapes
IsJsonString(s) ==
    /\ Len(s) >= 2
    /\ s[1] = "\"" /\ s[Len(s)] = "\""
    /\ \A i \in 2..(Len(s) - 1) : s[i] \notin {"\"", "\\"}

\* response.json(): the value decoded, or ok = FALSE where json.loads raises
\* (the documents decoded here are numbers and strings)
JsonLoads(s) ==
    IF IsJsonNumber(s) THEN [ok |-> TRUE, value |-> PyInt(DigitsValue(s))]
    ELSE IF IsJsonString(s) THEN [ok |-> TRUE, value |-> PyStr(SubSeq(s, 2, Len(s) - 1))]
    ELSE [ok |-> FALSE, value |-> NoBody]

\* line 239: response.headers.get('Content-Type', '')
ContentTypeOf(response) == IF response.ctype = Absent THEN "" ELSE response.ctype

\* lines 240-244: the body of the envelope
BodyOf(response) ==
    IF Contains(ContentTypeOf(response), "application/json")
    THEN IF JsonLoads(response.text).ok
         THEN JsonLoads(response.text).value
         ELSE PyStr(response.text)
    ELSE PyStr(response.text)

\* a bug: the envelope reports the relay's own status
EnvelopeOwnStatus(response) ==
    [kind |-> "envelope", http |-> 200, status_code |-> 200,
     body |-> BodyOf(response), detail |-> None]

\* the dict the handler returns for an upstream response
Envelope(response) ==
    [kind |-> "envelope", http |-> 200, status_code |-> response.status,
     body |-> BodyOf(response), detail |-> None]

(***************************************************************************)
(* SACClient._authenticate, _fetch_csrf, _sync_request: the pure parts     *)
(***************************************************************************)
\* a bug: the comparison of line 37 inverted
CacheValidInverted(cl, t) == Truthy(cl.access_token) /\ t > cl.token_expiry

\* line 37: the cached token is used
CacheValid(cl, t) == Truthy(cl.access_token) /\ t < cl.token_expiry

\* a bug: the safety margin forgotten
ExpiryOfNoMargin(t, e) ==
    t + (IF e.kind = "absent" THEN DefaultExpiresIn ELSE e.val)

\* line 47: the expiry computed from the token response read at time t
ExpiryOf(t, e) ==
    t + (IF e.kind = "absent" THEN DefaultExpiresIn ELSE e.val) - ExpiryMargin

\* the exception _authenticate raises on a token response, or None
TokenFailure(out) ==
    IF IsRaised(out) THEN out.exc
    ELSE IF RaiseForStatus(out.status) THEN "HTTPError"
    ELSE IF ~out.body.json THEN "JSONDecodeError"
    ELSE IF ~out.body.has_token THEN "KeyError"
    ELSE IF out.body.expires_in.kind = "str" THEN "TypeError"
    ELSE None

\* a bug: the cache invalidated before the grant, so that a failed grant leaves it empty
ClientAfterTokenInvalidating(cl, out, t) ==
    IF TokenFailure(out) = None
    THEN [cl EXCEPT !.access_token = out.body.access_token,
                    !.token_expiry = ExpiryOf(t, out.body.expires_in)]
    ELSE [cl EXCEPT !.access_token = None, !.token_expiry = 0]

\* the client after _authenticate has processed token response out at time t:
\* line 46 assigns access_token before line 47 can raise
ClientAfterToken(cl, out, t) ==
    IF TokenFailure(out) = None
    THEN [cl EXCEPT !.access_token = out.body.access_token,
                    !.token_expiry = ExpiryOf(t, out.body.expires_in)]
    ELSE IF TokenFailure(out) = "TypeError"
    THEN [cl EXCEPT !.access_token = out.body.access_token]
    ELSE cl

\* line 45: data, and the time line 47 reads, once the body has been decoded
GrantAfterToken(g, out, t) ==
    IF TokenFailure(out) \in {None, "TypeError"}
    THEN [at |-> t, expires_in |-> out.body.expires_in]
    ELSE g

\* res, as lines 39 and 56 assign it
TokenRes(out) ==
    IF IsRaised(out) THEN NoRes
    ELSE [kind |-> "token", status |-> out.status,
          has_token |-> out.body.json /\ out.body.has_token, header |-> None]
CsrfRes(out) ==
    IF IsRaised(out) THEN NoRes
    ELSE [kind |-> "csrf", status |-> out.status, has_token |-> FALSE,
          header |-> out.header]

\* the exception _fetch_csrf raises on a CSRF response, or None
CsrfFailure(out) ==
    IF IsRaised(out) THEN out.exc
    ELSE IF RaiseForStatus(out.status) THEN "HTTPError"
    ELSE None

\* f'Bearer {token}'
Bearer(tok) == <<"Bearer", tok>>

CsrfPath == <<"/", "a", "p", "i", "/", "v", "1", "/", "c", "s", "r", "f">>

\* line 64
BuildUrl(base, endpoint) ==
    IF StartsWith(endpoint, <<"/">>) THEN base \o endpoint ELSE base \o <<"/">> \o endpoint

\* line 70
MutatingMethods == {<<"P", "O", "S", "T">>, <<"P", "U", "T">>,
                    <<"D", "E", "L", "E", "T", "E">>, <<"P", "A", "T", "C", "H">>}
\* a bug: the test of line 70 left out, the header attached for every method
IsMutatingAnyMethod(method) == TRUE

IsMutating(method) == Upper(method) \in MutatingMethods

\* a bug: every 403 is taken for a CSRF rejection
IsCsrfRejectionAny403(response) == response.status = 403

\* line 76
IsCsrfRejection(response) ==
    response.status = 403 /\ Contains(Upper(response.text), <<"C", "S", "R", "F">>)

\* the requests as they go on the wire
TokenRequest(cl) ==
    [kind |-> "token", method |-> <<"P", "O", "S", "T">>, url |-> cl.token_url,
     auth |-> <<>>, csrf |-> Absent]
CsrfRequest(cl) ==
    [kind |-> "csrf", method |-> <<"G", "E", "T">>, url |-> cl.base_url \o CsrfPath,
     auth |-> Bearer(cl.access_token), csrf |-> "fetch"]
TargetRequest(method, fr) ==
    [kind |-> "target", method |-> Upper(method), url |-> fr.url,
     auth |-> fr.auth, csrf |-> fr.csrf]

(***************************************************************************)
(* Actions.                                                                *)
(***************************************************************************)
\* the clock advances
Tick ==
    /\ now < MaxTime
    /\ now' = now + 1
    /\ UNCHANGED <<environ, world, queue, pc, req, client, frame, grant, res, exc, log, result>>

\* POST /api/request arrives: lines 228-237.  The handler constructs the
\* client; a ValueError is caught at line 255, otherwise _sync_request is
\* submitted to the executor and the handler awaits it.
Arrive(c) ==
    /\ pc[c] = "idle"
    /\ \A d \in Calls : d < c => pc[d] # "idle"
    /\ \E m \in World(world).methods, e \in World(world).endpoints :
         req' = [req EXCEPT ![c] = [method |-> m, endpoint |-> e]]
    /\ IF ConfigComplete(environ)
       THEN /\ client' = [client EXCEPT ![c] = NewClient(environ)]
            /\ queue' = Append(queue, c)
            /\ pc' = [pc EXCEPT ![c] = "queued"]
            /\ UNCHANGED <<result, exc>>
       ELSE /\ result' = [result EXCEPT ![c] = ErrorResponse("ValueError")]
            /\ exc' = [exc EXCEPT ![c] = "ValueError"]
            /\ pc' = [pc EXCEPT ![c] = "done"]
            /\ UNCHANGED <<client, queue>>
    /\ UNCHANGED <<environ, world, now, frame, grant, res, log>>

\* a relay call arrives while no other call is outstanding
ArriveAlone(c) ==
    /\ \A d \in Calls : pc[d] = "idle"
    /\ Arrive(c)

\* a bug: a thread is started for every call, whatever the number of calls running
StartUnbounded(c) ==
    /\ pc[c] = "queued"
    /\ queue # <<>> /\ Head(queue) = c
    /\ queue' = Tail(queue)
    /\ frame' = [frame EXCEPT ![c] =
                   [NoFrame EXCEPT !.url = BuildUrl(client[c].base_url, req[c].endpoint),
                                   !.phase = "hdr"]]
    /\ pc' = [pc EXCEPT ![c] = "auth"]
    /\ UNCHANGED <<environ, world, now, req, client, grant, res, exc, log, result>>

\* a bug: the calls are run one after the other, as on the request-handling thread
StartOneAtATime(c) ==
    /\ pc[c] = "queued"
    /\ queue # <<>> /\ Head(queue) = c
    /\ Running = {}
    /\ queue' = Tail(queue)
    /\ frame' = [frame EXCEPT ![c] =
                   [NoFrame EXCEPT !.url = BuildUrl(client[c].base_url, req[c].endpoint),
                                   !.phase = "hdr"]]
    /\ pc' = [pc EXCEPT ![c] = "auth"]
    /\ UNCHANGED <<environ, world, now, req, client, grant, res, exc, log, result>>

\* a free worker of the pool takes the call at the head of the work queue:
\* line 64, then line 66
Start(c) ==
    /\ pc[c] = "queued"
    /\ queue # <<>> /\ Head(queue) = c
    /\ Cardinality(Running) < MaxWorkers
    /\ queue' = Tail(queue)
    /\ frame' = [frame EXCEPT ![c] =
                   [NoFrame EXCEPT !.url = BuildUrl(client[c].base_url, req[c].endpoint),
                                   !.phase = "hdr"]]
    /\ pc' = [pc EXCEPT ![c] = "auth"]
    /\ UNCHANGED <<environ, world, now, req, client, grant, res, exc, log, result>>

\* an exception leaves _sync_request
Raise(c, e) ==
    /\ exc' = [exc EXCEPT ![c] = e]
    /\ pc' = [pc EXCEPT ![c] = "raised"]
    /\ UNCHANGED frame

\* the code that follows a returned _authenticate(), up to the next upstream
\* exchange; cl is the client as _authenticate left it
AfterAuthenticate(c, cl) ==
    /\ UNCHANGED exc
    /\ IF frame[c].phase = "hdr"
       THEN \* lines 65-71
            IF IsMutating(req[c].method) /\ ~Truthy(cl.csrf_token)
            THEN /\ frame' = [frame EXCEPT ![c].auth = Bearer(cl.access_token),
                                           ![c].phase = "csrf1"]
                 /\ pc' = [pc EXCEPT ![c] = "auth"]
            ELSE /\ frame' = [frame EXCEPT ![c].auth = Bearer(cl.access_token),
                                           ![c].csrf = IF IsMutating(req[c].method)
                                                       THEN cl.csrf_token ELSE Absent]
                 /\ pc' = [pc EXCEPT ![c] = "send1"]
       ELSE \* line 52, inside _fetch_csrf
            /\ pc' = [pc EXCEPT ![c] = "csrf"]
            /\ UNCHANGED frame

\* _authenticate(), lines 36-48, called at line 66 or at line 52
Authenticate(c) ==
    /\ pc[c] = "auth"
    /\ \/ /\ CacheValid(client[c], now)
          /\ AfterAuthenticate(c, client[c])
          /\ UNCHANGED <<client, grant, res, log>>
       \/ /\ ~CacheValid(client[c], now)
          /\ \E out \in World(world).token :
               /\ log' = [log EXCEPT ![c] = Append(@, TokenRequest(client[c]))]
               /\ client' = [client EXCEPT ![c] = ClientAfterToken(@, out, now)]
               /\ res' = [res EXCEPT ![c] = TokenRes(out)]
               /\ grant' = [grant EXCEPT ![c] = GrantAfterToken(@, out, now)]
               /\ IF TokenFailure(out) # None
                  THEN Raise(c, TokenFailure(out))
                  ELSE AfterAuthenticate(c, ClientAfterToken(client[c], out, now))
    /\ UNCHANGED <<environ, world, now, queue, req, result>>

\* the GET of _fetch_csrf, lines 56-59, and the assignment that receives its
\* result (line 71 or line 77)
FetchCsrf(c) ==
    /\ pc[c] = "csrf"
    /\ \E out \in World(world).csrf :
         /\ log' = [log EXCEPT ![c] = Append(@, CsrfRequest(client[c]))]
         /\ res' = [res EXCEPT ![c] = CsrfRes(out)]
         /\ IF CsrfFailure(out) # None
            THEN /\ Raise(c, CsrfFailure(out))
                 /\ UNCHANGED client
            ELSE /\ client' = [client EXCEPT ![c].csrf_token = out.header]
                 /\ frame' = [frame EXCEPT ![c].csrf = out.header]
                 /\ pc' = [pc EXCEPT ![c] =
                             IF frame[c].phase = "csrf1" THEN "send1" ELSE "send2"]
                 /\ UNCHANGED exc
    /\ UNCHANGED <<environ, world, now, queue, req, grant, result>>

\* a bug: line 77 written as line 71, the cached token used when there is one
SendFirstCachedRetry(c) ==
    /\ pc[c] = "send1"
    /\ \E out \in World(world).target :
         /\ log' = [log EXCEPT ![c] = Append(@, TargetRequest(req[c].method, frame[c]))]
         /\ IF IsRaised(out)
            THEN Raise(c, out.exc)
            ELSE /\ frame' = [frame EXCEPT ![c].first = out, ![c].response = out,
                                           ![c].phase = IF IsCsrfRejection(out)
                                                        THEN "csrf2" ELSE @]
                 /\ pc' = [pc EXCEPT ![c] =
                             IF ~IsCsrfRejection(out) THEN "returned"
                             ELSE IF Truthy(client[c].csrf_token) THEN "send2" ELSE "auth"]
                 /\ UNCHANGED exc
    /\ UNCHANGED <<environ, world, now, queue, req, client, grant, res, result>>

\* session.request at line 73 and the test of line 76
SendFirst(c) ==
    /\ pc[c] = "send1"
    /\ \E out \in World(world).target :
         /\ log' = [log EXCEPT ![c] = Append(@, TargetRequest(req[c].method, frame[c]))]
         /\ IF IsRaised(out)
            THEN Raise(c, out.exc)
            ELSE /\ frame' = [frame EXCEPT ![c].first = out, ![c].response = out,
                                           ![c].phase = IF IsCsrfRejection(out)
                                                        THEN "csrf2" ELSE @]
                 /\ pc' = [pc EXCEPT ![c] =
                             IF IsCsrfRejection(out) THEN "auth" ELSE "returned"]
                 /\ UNCHANGED exc
    /\ UNCHANGED <<environ, world, now, queue, req, client, grant, res, result>>

\* a bug: the retry of lines 76-78 written as a loop
SendSecondLooping(c) ==
    /\ pc[c] = "send2"
    /\ \E out \in World(world).target :
         /\ log' = [log EXCEPT ![c] = Append(@, TargetRequest(req[c].method, frame[c]))]
         /\ IF IsRaised(out)
            THEN Raise(c, out.exc)
            ELSE /\ frame' = [frame EXCEPT ![c].second = out, ![c].response = out]
                 /\ pc' = [pc EXCEPT ![c] =
                             IF out.status = 403 /\ Len(log[c]) < 8 THEN "auth" ELSE "returned"]
                 /\ UNCHANGED exc
    /\ UNCHANGED <<environ, world, now, queue, req, client, grant, res, result>>

\* session.request at line 78 and the return of line 79
SendSecond(c) ==
    /\ pc[c] = "send2"
    /\ \E out \in World(world).target :
         /\ log' = [log EXCEPT ![c] = Append(@, TargetRequest(req[c].method, frame[c]))]
         /\ IF IsRaised(out)
            THEN Raise(c, out.exc)
            ELSE /\ frame' = [frame EXCEPT ![c].second = out, ![c].response = out]
                 /\ pc' = [pc EXCEPT ![c] = "returned"]
                 /\ UNCHANGED exc
    /\ UNCHANGED <<environ, world, now, queue, req, client, grant, res, result>>

\* the request call c is about to send
PendingRequest(c) ==
    CASE pc[c] = "auth" -> TokenRequest(client[c])
      [] pc[c] = "csrf" -> CsrfRequest(client[c])
      [] OTHER -> TargetRequest(req[c].method, frame[c])

\* the upstream never answers a request (session.post, session.get and
\* session.request are called without a timeout): the worker stays in the call
Hang(c) ==
    /\ pc[c] \in {"auth", "csrf", "send1", "send2"}
    /\ pc[c] = "auth" => ~CacheValid(client[c], now)
    /\ log' = [log EXCEPT ![c] = Append(@, PendingRequest(c))]
    /\ pc' = [pc EXCEPT ![c] = "hung"]
    /\ UNCHANGED <<environ, world, now, queue, req, client, frame, grant, res, exc, result>>

\* a bug: an exception after the first attempt is swallowed and the first response returned
RespondWithFirst(c) ==
    /\ pc[c] \in {"returned", "raised"}
    /\ result' = [result EXCEPT ![c] =
                    IF pc[c] = "returned" THEN Envelope(frame[c].response)
                    ELSE IF frame[c].first # NoResponse THEN Envelope(frame[c].first)
                    ELSE ErrorResponse(exc[c])]
    /\ pc' = [pc EXCEPT ![c] = "done"]
    /\ UNCHANGED <<environ, world, now, queue, req, client, frame, grant, res, exc, log>>

\* the awaited future completes: lines 239-257
Respond(c) ==
    /\ pc[c] \in {"returned", "raised"}
    /\ result' = [result EXCEPT ![c] =
                    IF pc[c] = "raised" THEN ErrorResponse(exc[c])
                    ELSE Envelope(frame[c].response)]
    /\ pc' = [pc EXCEPT ![c] = "done"]
    /\ UNCHANGED <<environ, world, now, queue, req, client, frame, grant, res, exc, log>>

\* the response has been delivered; the handler's objects are garbage
Forget(c) ==
    /\ pc[c] = "done"
    /\ pc' = [pc EXCEPT ![c] = "idle"]
    /\ req' = [req EXCEPT ![c] = NoRequest]
    /\ client' = [client EXCEPT ![c] = NoClient]
    /\ frame' = [frame EXCEPT ![c] = NoFrame]
    /\ grant' = [grant EXCEPT ![c] = NoGrant]
    /\ res' = [res EXCEPT ![c] = NoRes]
    /\ exc' = [exc EXCEPT ![c] = None]
    /\ log' = [log EXCEPT ![c] = <<>>]
    /\ result' = [result EXCEPT ![c] = NoResult]
    /\ UNCHANGED <<environ, world, now, queue>>

\* one relay call at a time
Next ==
    \/ Tick
    \/ \E c \in Calls :
         \/ ArriveAlone(c)
         \/ Start(c)
         \/ Authenticate(c)
         \/ FetchCsrf(c)
         \/ SendFirst(c)
         \/ SendSecond(c)
         \/ Respond(c)
         \/ Forget(c)

Spec == Init /\ [][Next]_vars

SpecConfig == InitConfig /\ [][Next]_vars

SpecContent == InitContent /\ [][Next]_vars

\* relay calls arrive while others are outstanding
NextConcurrent ==
    \/ Tick
    \/ \E c \in Calls :
         \/ Arrive(c)
         \/ Start(c)
         \/ Authenticate(c)
         \/ FetchCsrf(c)
         \/ SendFirst(c)
         \/ SendSecond(c)
         \/ Respond(c)
         \/ Forget(c)

SpecPair == InitPair /\ [][NextConcurrent]_vars

\* relay calls arrive while others are outstanding and the upstream may never answer
NextPool ==
    \/ \E c \in Calls : Arrive(c)
    \/ \E c \in Calls : Start(c)
    \/ \E c \in Calls : Authenticate(c)
    \/ \E c \in Calls : SendFirst(c)
    \/ \E c \in Calls : Hang(c)
    \/ \E c \in Calls : Respond(c)

SpecPool == InitPool /\ [][NextPool]_vars

\* the executor's workers and the event loop are scheduled: a worker that is
\* free takes the head of the queue, a call whose upstream answers goes on,
\* and a completed future is awaited
Proceed(c) == Start(c) \/ Authenticate(c) \/ SendFirst(c) \/ Respond(c)
PoolFairness == \A c \in 1..NCalls : WF_vars(Proceed(c))

SpecPoolFair == InitPool /\ [][NextPool]_vars /\ PoolFairness

(***************************************************************************)
(* What a call has done, read from its log.                                *)
(***************************************************************************)
Sent(c, kind) == {i \in DOMAIN log[c] : log[c][i].kind = kind}
TargetCount(c) == Cardinality(Sent(c, "target"))

\* _sync_request returned a response to the handler
ReturnedResponse(c) ==
    pc[c] = "returned" \/ (pc[c] = "done" /\ result[c].kind = "envelope")

\* the first response from the target URL has been received
FirstReceived(c) == frame[c].first # NoResponse

\* the text holds the letters c, s, r, f in a row, each in either case
HasCsrfAnyCase(text) ==
    \E i \in 1..(Len(text) - 3) :
        /\ text[i] \in {"c", "C"}
        /\ text[i + 1] \in {"s", "S"}
        /\ text[i + 2] \in {"r", "R"}
        /\ text[i + 3] \in {"f", "F"}

\* a 403 whose body mentions CSRF
CsrfRejected(r) == r.status = 403 /\ HasCsrfAnyCase(r.text)

\* a CSRF fetch was issued after a request to the target URL
RefetchIssued(c) ==
    \E i \in Sent(c, "target"), j \in Sent(c, "csrf") : i < j

(***************************************************************************)
(* C1.  CSRF retry-once: a call issues at most two requests to the target  *)
(* URL, never a third.  When the first response is a 403 with a CSRF body  *)
(* and _sync_request returns a response, the request was issued exactly    *)
(* twice and the response returned (and put in the envelope) is the second *)
(* one, as it is, also when it is again a 403 with a CSRF body.            *)
(***************************************************************************)
C1_RetryOnce ==
    \A c \in Calls :
        /\ TargetCount(c) <= 2
        /\ (FirstReceived(c) /\ CsrfRejected(frame[c].first) /\ ReturnedResponse(c)) =>
              /\ TargetCount(c) = 2
              /\ frame[c].second # NoResponse
              /\ frame[c].response = frame[c].second
              /\ pc[c] = "done" =>
                    /\ result[c].status_code = frame[c].second.status
                    /\ result[c].body = PyStr(frame[c].second.text)

\* the failure persists on both attempts and the second 403 is returned
C1_Witness ==
    \E c \in Calls :
        /\ pc[c] = "done"
        /\ CsrfRejected(frame[c].first)
        /\ CsrfRejected(frame[c].second)
        /\ TargetCount(c) = 2
        /\ result[c].kind = "envelope"
        /\ result[c].status_code = 403

(***************************************************************************)
(* C2.  The retry is triggered only by a first response that is a 403      *)
(* whose body contains CSRF in any letter case: a second request to the    *)
(* target URL, or a CSRF fetch after the first request, is issued only     *)
(* then; after any other first response the call has returned that first   *)
(* response after exactly one request and no refetch; and a call that      *)
(* returns a response after such a 403 has refetched and issued the        *)
(* request twice.                                                          *)
(***************************************************************************)
C2_NarrowTrigger ==
    \A c \in Calls :
        /\ (TargetCount(c) = 2 \/ RefetchIssued(c)) =>
              (FirstReceived(c) /\ CsrfRejected(frame[c].first))
        /\ (FirstReceived(c) /\ ~CsrfRejected(frame[c].first)) =>
              /\ ReturnedResponse(c)
              /\ TargetCount(c) = 1
              /\ ~RefetchIssued(c)
              /\ frame[c].response = frame[c].first
              /\ pc[c] = "done" => result[c].status_code = frame[c].first.status
        /\ (FirstReceived(c) /\ CsrfRejected(frame[c].first)) =>
              /\ pc[c] \in {"auth", "csrf", "send2", "returned", "raised", "done"}
              /\ ReturnedResponse(c) => (TargetCount(c) = 2 /\ RefetchIssued(c))

\* a 403 with a mixed-case csrf body was retried, a 403 without was not
C2_Witness ==
    \E c \in Calls :
        /\ pc[c] = "done"
        /\ frame[c].first.status = 403
        /\ frame[c].first.text = <<"a", "c", "S", "r", "f">>
        /\ frame[c].second.status = 200
        /\ TargetCount(c) = 2
        /\ RefetchIssued(c)

\* a step of call c
StepOf(c) == <<pc[c], frame[c]>>' # <<pc[c], frame[c]>>

\* call c is about to run _authenticate and this step runs it
AuthenticateStep(c) == pc[c] = "auth" /\ StepOf(c)

\* _authenticate posted to the token endpoint in this step
GrantRequested(c) ==
    /\ Len(log'[c]) = Len(log[c]) + 1
    /\ log'[c][Len(log'[c])].kind = "token"

(***************************************************************************)
(* C3.  Token caching: when a (non-empty) token is cached and              *)
(* now < expiry, authenticate() issues no request to the token endpoint,   *)
(* raises nothing, and leaves the cached token and expiry as they were;    *)
(* the caller goes on with that token.                                     *)
(***************************************************************************)
C3_TokenCaching ==
    [][\A c \in Calls :
          (/\ AuthenticateStep(c)
           /\ client[c].access_token \notin {None, ""}
           /\ now < client[c].token_expiry) =>
              /\ log'[c] = log[c]
              /\ client'[c] = client[c]
              /\ pc'[c] # "raised"
              /\ frame[c].phase = "hdr" => frame'[c].auth = Bearer(client[c].access_token)]_vars

\* _fetch_csrf's authenticate() has returned from the cache: one token request so far
C3_Witness ==
    \E c \in Calls :
        /\ pc[c] = "csrf"
        /\ frame[c].phase = "csrf1"
        /\ Cardinality(Sent(c, "token")) = 1
        /\ client[c].access_token = "t1"
        /\ now < client[c].token_expiry

\* T + E - 300 for the token response _authenticate last decoded
GrantExpiry(c) == grant[c].at + grant[c].expires_in.val - 300

C5_TransportMapping ==
    \A c \in Calls :
        pc[c] = "done" =>
            /\ result[c].http \in {200, 500, 502, 504}
            /\ (result[c].http = 200) = (result[c].kind = "envelope")
            /\ (result[c].kind = "envelope") = (exc[c] = None)
            /\ exc[c] \in {"ReadTimeout", "ConnectTimeout"} => result[c].http = 504
            /\ exc[c] = "ConnectionError" => result[c].http = 502
            /\ exc[c] \notin {None, "ReadTimeout", "ConnectTimeout", "ConnectionError"} =>
                  result[c].http = 500

\* the connection timed out on the re-issued request
C5_Witness ==
    \E c \in Calls :
        /\ pc[c] = "done"
        /\ TargetCount(c) = 2
        /\ log[c][Len(log[c])].kind = "target"
        /\ exc[c] = "ConnectTimeout"
        /\ result[c].http = 504

\* the last response call c received from the target URL
LastTargetResponse(c) ==
    IF frame[c].second # NoResponse THEN frame[c].second ELSE frame[c].first

\* the last upstream exchange of call c was a request to the target URL that returned
TargetAnsweredLast(c) ==
    /\ log[c] # <<>>
    /\ log[c][Len(log[c])].kind = "target"
    /\ exc[c] = None

(***************************************************************************)
(* C6.  Upstream application errors pass through: when the request to the  *)
(* target URL returned a status, whatever it is, the relay answers with an *)
(* envelope whose status_code is the status of the last response received  *)
(* from the target URL; an error answer always comes from an exception     *)
(* raised by an upstream exchange, never from a returned target response.  *)
(***************************************************************************)
C6_PassThrough ==
    \A c \in Calls :
        pc[c] = "done" =>
            /\ TargetAnsweredLast(c) =>
                  /\ result[c].kind = "envelope"
                  /\ result[c].http = 200
            /\ result[c].kind = "envelope" =>
                  /\ TargetAnsweredLast(c)
                  /\ result[c].status_code = LastTargetResponse(c).status
                  /\ result[c].body = PyStr(LastTargetResponse(c).text)
            /\ result[c].kind = "error" =>
                  /\ exc[c] # None
                  /\ log[c] # <<>>
                  /\ log[c][Len(log[c])].kind = "target" => exc[c] \in TransportExc

\* the second attempt's 500 is passed through
C6_Witness ==
    \E c \in Calls :
        /\ pc[c] = "done"
        /\ frame[c].first.status = 403
        /\ frame[c].second.status = 500
        /\ result[c].kind = "envelope"
        /\ result[c].status_code = 500

\* the last upstream request of call c
LastSent(c) == log[c][Len(log[c])]

\* call c ended in an exception and, once answered, in a 500
EndedIn500(c) ==
    /\ pc[c] \in {"raised", "done"}
    /\ exc[c] # None
    /\ pc[c] = "done" => (result[c].kind = "error" /\ result[c].http = 500)

(***************************************************************************)
(* C7.  authenticate() fails whenever the token endpoint returns a status  *)
(* outside 200-299 or a body without an access_token field: the call then  *)
(* issues no CSRF fetch and no request to the target URL after that token  *)
(* request, and the relay answers 500.                                     *)
(***************************************************************************)
C7_AuthFailsOnNon2xx ==
    \A c \in Calls :
        (/\ res[c].kind = "token"
         /\ (res[c].status < 200 \/ res[c].status > 299 \/ ~res[c].has_token)) =>
            /\ EndedIn500(c)
            /\ LastSent(c).kind = "token"

(***************************************************************************)
(* C8.  fetch_csrf_token() fails on every response of the CSRF endpoint    *)
(* whose status is outside 200-299: the cached CSRF token is not replaced  *)
(* by that response's header, no request to the target URL follows, and    *)
(* the relay answers 500.                                                  *)
(***************************************************************************)
C8_CsrfFailsOnNon2xx ==
    \A c \in Calls :
        (res[c].kind = "csrf" /\ (res[c].status < 200 \/ res[c].status > 299)) =>
            /\ EndedIn500(c)
            /\ LastSent(c).kind = "csrf"
            /\ Cardinality(Sent(c, "csrf")) = 1 => client[c].csrf_token = None

\* the text is made of slashes only (the empty text too)
OnlySlashes(v) == \A i \in DOMAIN v : v[i] = "/"

\* the variable is absent or empty
Missing(name) == ~environ[name].set \/ environ[name].val = <<>>

\* the construction of call c's client failed: nothing was sent upstream, the answer is 500
ConstructionFailed(c) ==
    /\ pc[c] = "done"
    /\ exc[c] = "ValueError"
    /\ log[c] = <<>>
    /\ result[c].kind = "error"
    /\ result[c].http = 500

\* call c's client was constructed
Constructed(c) ==
    /\ exc[c] # "ValueError"
    /\ client[c].token_url = environ["SAC_TOKEN_URL"].val
    /\ client[c].base_url # <<>>

(***************************************************************************)
(* C9, as claimed.  The construction fails if any of the four variables is *)
(* absent or empty, with no upstream request and a 500 answer, and         *)
(* succeeds when all four are present.                                     *)
(***************************************************************************)
C9_AsClaimed ==
    \A c \in Calls :
        pc[c] # "idle" =>
            IF \E n \in EnvNames : Missing(n)
            THEN ConstructionFailed(c)
            ELSE Constructed(c)

(***************************************************************************)
(* C9, amended.  The construction fails if any of the four variables is    *)
(* absent or empty or if SAC_BASE_URL is made of slashes only, with no     *)
(* upstream request and a 500 answer; it succeeds in every other case.     *)
(***************************************************************************)
C9_Configuration ==
    \A c \in Calls :
        pc[c] # "idle" =>
            IF (\E n \in EnvNames : Missing(n)) \/ OnlySlashes(environ["SAC_BASE_URL"].val)
            THEN ConstructionFailed(c)
            ELSE Constructed(c)

\* only the client secret is missing and the call was answered 500
C9_Witness ==
    \E c \in Calls :
        /\ ConstructionFailed(c)
        /\ ~environ["SAC_CLIENT_SECRET"].set
        /\ \A n \in EnvNames \ {"SAC_CLIENT_SECRET"} : ~Missing(n)
        /\ ~OnlySlashes(environ["SAC_BASE_URL"].val)

(***************************************************************************)
(* C10.  Endpoint normalisation: every request to the target URL goes to   *)
(* the configured base URL without its trailing slashes, one slash, and    *)
(* the endpoint without its leading slashes.                               *)
(***************************************************************************)
C10_Normalized ==
    \A c \in Calls :
        \A i \in Sent(c, "target") :
            log[c][i].url =
                RStrip(environ["SAC_BASE_URL"].val, "/") \o <<"/">> \o LStrip(req[c].endpoint, "/")

\* the characters of a string
Chars(str) == [i \in 1..Len(str) |-> SubSeq(str, i, i)]

\* the media type of a Content-Type value: what precedes the parameters
MediaType(ct) ==
    IF \E i \in DOMAIN ct : ct[i] = ";"
    THEN SubSeq(ct, 1, (CHOOSE i \in DOMAIN ct : ct[i] = ";" /\ \A j \in 1..(i - 1) : ct[j] # ";") - 1)
    ELSE ct

\* the response declares the media type application/json (media types are
\* compared without regard to letter case)
DeclaresJson(response) ==
    /\ response.ctype # Absent
    /\ Upper(MediaType(Chars(response.ctype))) = Chars("APPLICATION/JSON")

(***************************************************************************)
(* C11.  Content-type-based body decoding: the body of the envelope is the *)
(* parsed JSON value when the upstream response declares Content-Type      *)
(* application/json and its body parses as JSON; it is the raw body text   *)
(* when the declared type is application/json and the body does not parse, *)
(* and for every other content type, a missing Content-Type included, also *)
(* when the text is a JSON document.                                       *)
(***************************************************************************)
C11_BodyDecoding ==
    \A c \in Calls :
        (pc[c] = "done" /\ result[c].kind = "envelope") =>
            result[c].body =
                IF DeclaresJson(frame[c].response) /\ JsonLoads(frame[c].response.text).ok
                THEN JsonLoads(frame[c].response.text).value
                ELSE PyStr(frame[c].response.text)

\* the requests call c sent before its first request to the target URL
BeforeFirstTarget(c) ==
    {j \in DOMAIN log[c] : \A i \in Sent(c, "target") : j < i}

\* a header value that requests puts on the wire as a token
IsTokenValue(v) == v \notin {Absent, None, ""}

(***************************************************************************)
(* C14.  For a mutating method (POST, PUT, PATCH, DELETE in any letter     *)
(* case) every request sent to the target URL carries an x-csrf-token      *)
(* header with a token value, and before the first attempt the client, its *)
(* cache being empty, has performed exactly one CSRF fetch: a mutating     *)
(* request is never sent with the CSRF token absent.                       *)
(***************************************************************************)
C14_CsrfAlwaysAttached ==
    \A c \in Calls :
        (IsMutating(req[c].method) /\ Sent(c, "target") # {}) =>
            /\ \A i \in Sent(c, "target") : IsTokenValue(log[c][i].csrf)
            /\ Cardinality(Sent(c, "csrf") \cap BeforeFirstTarget(c)) = 1

\* call c is a request with a method other than POST, PUT, PATCH, DELETE
NonMutatingCall(c) ==
    /\ pc[c] # "idle"
    /\ Upper(req[c].method) \notin {<<"P", "O", "S", "T">>, <<"P", "U", "T">>,
                                    <<"P", "A", "T", "C", "H">>, <<"D", "E", "L", "E", "T", "E">>}

\* the position in the log of call c's first and last request to the target URL
FirstTarget(c) == CHOOSE i \in Sent(c, "target") : \A j \in Sent(c, "target") : i <= j
LastTarget(c) == CHOOSE i \in Sent(c, "target") : \A j \in Sent(c, "target") : j <= i

(***************************************************************************)
(* C15, as claimed.  A call with a non-mutating method never contacts the  *)
(* CSRF endpoint and never sends a request to the target URL that carries  *)
(* an x-csrf-token header, on the first attempt or on a re-issued one.     *)
(***************************************************************************)
C15_AsClaimed ==
    \A c \in Calls :
        NonMutatingCall(c) =>
            /\ Sent(c, "csrf") = {}
            /\ \A i \in Sent(c, "target") : log[c][i].csrf = Absent

(***************************************************************************)
(* C15, amended.  A call with a non-mutating method does not contact the   *)
(* CSRF endpoint before its first attempt and sends the first attempt      *)
(* without an x-csrf-token header.  It contacts the CSRF endpoint only     *)
(* after a first response that is a 403 with a CSRF body, once, and the    *)
(* re-issued request then carries the x-csrf-token that fetch returned.    *)
(***************************************************************************)
C15_NonMutating ==
    \A c \in Calls :
        NonMutatingCall(c) =>
            /\ Sent(c, "csrf") \cap BeforeFirstTarget(c) = {}
            /\ Sent(c, "target") # {} => log[c][FirstTarget(c)].csrf = Absent
            /\ Sent(c, "csrf") # {} =>
                  /\ FirstReceived(c) /\ CsrfRejected(frame[c].first)
                  /\ Cardinality(Sent(c, "csrf")) = 1
            /\ TargetCount(c) = 2 =>
                  /\ Cardinality(Sent(c, "csrf")) = 1
                  /\ log[c][LastTarget(c)].csrf = res[c].header
                  /\ log[c][LastTarget(c)].csrf = client[c].csrf_token

\* a GET was rejected with a CSRF body and re-issued with the fetched token
C15_Witness ==
    \E c \in Calls :
        /\ pc[c] = "done"
        /\ req[c].method = <<"G", "E", "T">>
        /\ CsrfRejected(frame[c].first)
        /\ TargetCount(c) = 2
        /\ log[c][FirstTarget(c)].csrf = Absent
        /\ log[c][LastTarget(c)].csrf = "c1"
        /\ result[c].kind = "envelope"

\* the position in the log of call c's forced CSRF fetch: the one after the first attempt
ForcedFetch(c) == CHOOSE j \in Sent(c, "csrf") : FirstTarget(c) < j

\* call c is past line 77 after a first response that was a 403 with a CSRF body
PastRefetch(c) ==
    /\ FirstReceived(c) /\ CsrfRejected(frame[c].first)
    /\ pc[c] \in {"send2", "returned"} \/ TargetCount(c) = 2

(***************************************************************************)
(* C16.  CSRF token state machine: after a first response that is a 403    *)
(* with a CSRF body the client fetches a CSRF token whether or not one is  *)
(* cached (the cache is bypassed); once that forced fetch has returned,    *)
(* the client's cached CSRF token is the value of the x-csrf-token header  *)
(* of its response, the re-issued request carries that value and not the   *)
(* one the first attempt carried, and the cache still holds it when the    *)
(* call has returned.                                                      *)
(***************************************************************************)
C16_ForcedRefetch ==
    \A c \in Calls :
        PastRefetch(c) =>
            /\ RefetchIssued(c)
            /\ res[c].kind = "csrf"
            /\ log[c][ForcedFetch(c)].csrf = "fetch"
            /\ client[c].csrf_token = res[c].header
            /\ frame[c].csrf = res[c].header
            /\ TargetCount(c) = 2 =>
                  /\ ForcedFetch(c) < LastTarget(c)
                  /\ log[c][LastTarget(c)].csrf = res[c].header
                  /\ log[c][LastTarget(c)].csrf = client[c].csrf_token

\* a POST sent with the token c1 was rejected, and re-issued with the newly fetched c2,
\* which is the cached token when the call has returned
C16_Witness ==
    \E c \in Calls :
        /\ pc[c] = "returned"
        /\ IsMutating(req[c].method)
        /\ CsrfRejected(frame[c].first)
        /\ log[c][FirstTarget(c)].csrf = "c1"
        /\ log[c][LastTarget(c)].csrf = "c2"
        /\ client[c].csrf_token = "c2"

\* call c sends a request in this step, and the request it sends
Sends(c) == Len(log'[c]) = Len(log[c]) + 1
SentNow(c) == log'[c][Len(log'[c])]

(***************************************************************************)
(* C18.  The bearer token is always attached and always current: every     *)
(* request a call issues to the CSRF endpoint or to the target URL (first  *)
(* or re-issued attempt) carries the Authorization of the access token the *)
(* client has cached at the moment the request is sent, so that after a    *)
(* re-authentication no later request carries the previous token.          *)
(***************************************************************************)
C18_BearerCurrent ==
    [][\A c \in Calls :
          (Sends(c) /\ SentNow(c).kind # "token") =>
              SentNow(c).auth = Bearer(client[c].access_token)]_vars

\* the token request of this step was answered with an error status (4xx, 5xx)
\* or with a body that has no access_token
GrantRefused(c) ==
    /\ GrantRequested(c)
    /\ res'[c].kind = "token"
    /\ (res'[c].status >= 400 \/ ~res'[c].has_token)

(***************************************************************************)
(* C19.  A failed authenticate() leaves the cache untouched: when the      *)
(* token request is answered with an error status or with a body without   *)
(* access_token, authenticate() raises and the client's access token and   *)
(* expiry are what they were before the call, both of them.                *)
(***************************************************************************)
C19_FailedAuthKeepsCache ==
    [][\A c \in Calls :
          (AuthenticateStep(c) /\ GrantRefused(c)) =>
              /\ pc'[c] = "raised"
              /\ client'[c] = client[c]
              /\ grant'[c] = grant[c]]_vars

\* the second grant of a call was refused 401 and the token and expiry of the first are kept
C19_Witness ==
    \E c \in Calls :
        /\ pc[c] = "raised"
        /\ exc[c] = "HTTPError"
        /\ Cardinality(Sent(c, "token")) = 2
        /\ LastSent(c).kind = "token"
        /\ res[c].status = 401
        /\ client[c].access_token = "t1"
        /\ client[c].token_expiry = ExpiryOf(grant[c].at, grant[c].expires_in)

\* the last request of call c belongs to the forced refetch of the retry path:
\* the token request or the CSRF request that follows a first response 403 with a CSRF body
InForcedRefetch(c) ==
    /\ FirstReceived(c) /\ CsrfRejected(frame[c].first)
    /\ LastSent(c).kind \in {"token", "csrf"}

\* that request failed: it raised, or it was answered with an error status (4xx, 5xx)
ForcedRefetchFailed(c) ==
    /\ InForcedRefetch(c)
    /\ exc[c] # None \/ (res[c].kind = LastSent(c).kind /\ res[c].status >= 400)

(***************************************************************************)
(* C20.  When the forced CSRF refetch of the retry path fails (an error    *)
(* status, 4xx or 5xx, from the CSRF endpoint or from the token endpoint,  *)
(* or a transport failure), the request is not re-issued and the call ends *)
(* in an exception: the relay answers 500, 502 or 504, as the exception    *)
(* maps, and not with an envelope of the first attempt's 403.              *)
(***************************************************************************)
C20_RefetchFailure ==
    \A c \in Calls :
        ForcedRefetchFailed(c) =>
            /\ exc[c] # None
            /\ pc[c] \in {"raised", "done"}
            /\ TargetCount(c) = 1
            /\ frame[c].second = NoResponse
            /\ pc[c] = "done" =>
                  /\ result[c].kind = "error"
                  /\ result[c].http = RelayStatus(exc[c])
                  /\ result[c].http \in {500, 502, 504}

\* the CSRF endpoint answered the forced refetch 403 and the relay answered 500
C20_Witness ==
    \E c \in Calls :
        /\ pc[c] = "done"
        /\ CsrfRejected(frame[c].first)
        /\ LastSent(c).kind = "csrf"
        /\ res[c].status = 403
        /\ exc[c] = "HTTPError"
        /\ TargetCount(c) = 1
        /\ result[c].kind = "error"
        /\ result[c].http = 500

\* the calls waiting in the executor's queue
Waiting == {queue[i] : i \in DOMAIN queue}

(***************************************************************************)
(* C13.  Bounded worker pool: at most 4 calls are executing upstream work  *)
(* at the same time; a call that is queued while 4 are executing stays     *)
(* queued, and starts only in a step before which fewer than 4 were        *)
(* executing; a queued call is never dropped: it stays in the queue, once, *)
(* until it starts.                                                        *)
(***************************************************************************)
C13_BoundedPool ==
    [][/\ Cardinality(Running) <= 4
       /\ Cardinality(Running') <= 4
       /\ Waiting = {c \in Calls : pc[c] = "queued"}
       /\ Cardinality(Waiting) = Len(queue)
       /\ \A c \in Calls :
            pc[c] = "queued" =>
                /\ pc'[c] \in {"queued", "auth"}
                /\ Cardinality(Running) = 4 => pc'[c] = "queued"
                /\ pc'[c] = "queued" => c \in Waiting'
                /\ pc'[c] = "auth" => (Cardinality(Running) < 4 /\ c \in Running')]_vars

\* four calls are executing and the fifth waits in the queue
C13_Witness ==
    /\ Cardinality(Running) = 4
    /\ \E c \in Calls : pc[c] = "queued" /\ queue = <<c>>

\* the calls whose upstream call never returns
Hung == {c \in Calls : pc[c] = "hung"}

\* the calls that have arrived, are not hung and have not been answered
InFlight == {c \in Calls : pc[c] \notin {"idle", "hung", "done"}}

(***************************************************************************)
(* C12.  Concurrent relay calls do not block one another on a slow         *)
(* upstream call: under fair scheduling of the workers and of the event    *)
(* loop, whenever calls are in flight (queued, executing or waiting to be  *)
(* answered), a state follows in which every call that has arrived has     *)
(* been answered, except the calls whose own upstream call never returns;  *)
(* unless 4 calls are hung and hold every worker of the pool.              *)
(***************************************************************************)
C12_NoBlocking ==
    InFlight # {} ~> (InFlight = {} \/ Cardinality(Hung) >= 4)

\* three calls are hung and every other call has been answered with an envelope
C12_Witness ==
    /\ Cardinality(Hung) = 3
    /\ \A c \in Calls \ Hung : pc[c] = "done" /\ result[c].kind = "envelope"

\* the client of call c holds no token: it is as __init__ left it
FreshClient(c) ==
    /\ client[c].access_token = None
    /\ client[c].token_expiry = 0
    /\ client[c].csrf_token = None

\* this step is a step of call c
ActsIn(c) == pc'[c] # pc[c] \/ log'[c] # log[c]

(***************************************************************************)
(* C17.  Every relay call constructs its own Session Client and no token   *)
(* or CSRF state is shared between relay calls: in every interleaving of   *)
(* concurrent calls a call enters the pool with a client that holds no     *)
(* token; the access token, expiry and CSRF token of a call's client       *)
(* change only in steps of that call, and a step of one call leaves the    *)
(* client, the headers and the requests of every other call as they were;  *)
(* the first upstream request of every call is a token request of its own, *)
(* and the Authorization a call builds is that of its own client's token.  *)
(***************************************************************************)
C17_NoSharedState ==
    [][\A c \in Calls :
          /\ pc[c] = "queued" => FreshClient(c)
          /\ log[c] # <<>> => log[c][1].kind = "token"
          /\ client'[c] # client[c] => ActsIn(c)
          /\ ActsIn(c) =>
                \A d \in Calls \ {c} :
                    /\ client'[d] = client[d]
                    /\ frame'[d] = frame[d]
                    /\ log'[d] = log[d]
          /\ (frame'[c].auth # frame[c].auth /\ pc'[c] # "idle") =>
                frame'[c].auth = Bearer(client'[c].access_token)
          /\ (Sends(c) /\ SentNow(c).kind = "csrf") =>
                SentNow(c).auth = Bearer(client[c].access_token)]_vars

\* two calls are in the pool at once, each with the token its own grant obtained
C17_Witness ==
    \E c \in Calls, d \in Calls :
        /\ pc[c] = "send1" /\ pc[d] = "send1"
        /\ client[c].access_token = "t1" /\ frame[c].auth = Bearer("t1")
        /\ client[d].access_token = "t2" /\ frame[d].auth = Bearer("t2")
        /\ Cardinality(Sent(c, "token")) = 1
        /\ Cardinality(Sent(d, "token")) = 1

=============================================================================
